---- MODULE Spec2Model ----
(***************************************************************************)
(* Model of the multilingual service desk:                                 *)
(*   - the call_sessions signalling flow driven by CallerDashboard and     *)
(*     AgentDashboard (React components talking to a hosted database with  *)
(*     change notifications),                                              *)
(*   - the mock WebSocket backend (backend/server.js),                     *)
(*   - the GET /api/token route,                                           *)
(*   - the session.update traffic of the single-page desk (app/page.tsx).  *)
(*                                                                         *)
(* A React function component re-creates its handlers on every render; a   *)
(* callback registered earlier (subscription callback, setTimeout) keeps   *)
(* the state values of the render that created it.  Those captured values  *)
(* are modelled explicitly as closure records.                             *)
(*                                                                         *)
(* Notifications of the database travel asynchronously: an INSERT reaches  *)
(* each subscribed agent, and an UPDATE the subscribed caller, in a later  *)
(* step.  A database call is applied in the step of the handler that       *)
(* issues it.  startRealtime is taken to succeed.                          *)
(***************************************************************************)
EXTENDS Integers, Sequences, FiniteSets, TLC

\* ---------------------------------------------------------------- bounds
NumAgents == 2      \* agents with an open dashboard
MaxSessions == 2    \* calls the caller starts
MaxInbox == 2       \* UPDATE notifications in flight to the caller
MaxTimers == 1      \* pending endCall timeouts per dashboard
NumConns == 2       \* WebSocket connections to the backend
MaxJobs == 1        \* audio chunks being processed at once
MaxRequests == 2    \* GET /api/token requests
MaxPending == 2     \* queued data-channel messages

Agents == 1..NumAgents
SessionIds == 1..MaxSessions

\* ------------------------------------------------------------ call state
VARIABLES
    rows,          \* call_sessions table: id -> [status, agent_id, agent_language]
    nSessions,     \* number of rows inserted so far
    rang,          \* ids some agent's handleIncomingCall has set to ringing
    answered,      \* ids some agent's answerCall has set to connected
    agAvail,       \* agent: isAvailable
    agState,       \* agent: callState
    agSession,     \* agent: currentSession (0 = null)
    agSub,         \* agent: subscriptionRef, with the values its callback closed over
    agInbox,       \* agent: INSERT notifications not yet delivered
    agTimers,      \* agent: pending endCall timeouts, with their closures
    agRealtime,    \* agent: realtimeRef.current !== null
    clState,       \* caller: callState
    clSession,     \* caller: currentSession (0 = null)
    clPending,     \* caller: startCall awaiting the insert (0 none, -1 error, id)
    clStartEnv,    \* caller: callState and currentSession of the render that called startCall
    clSubs,        \* caller: ids with a live UPDATE subscription
    clInbox,       \* caller: UPDATE notifications not yet delivered
    clTimers,      \* caller: pending 30 s auto-timeouts, with their closures
    clEndTimers,   \* caller: number of pending endCall timeouts
    clRealtime,    \* caller: session the realtime handle was started for (0 = null)
    clRing         \* caller: ring tone playing

callVars == <<rows, nSessions, rang, answered, agAvail,
              agState, agSession, agSub, agInbox, agTimers, agRealtime,
              clState, clSession, clPending, clStartEnv, clSubs, clInbox,
              clTimers, clEndTimers, clRealtime, clRing>>

\* --------------------------------------------------------- backend state
VARIABLES
    wsState,       \* connection: "none" (not yet connected), "open", "closed"
                   \* (by the peer) or "terminated" (by the heartbeat)
    wsRole,        \* ws.role
    wsIsAlive,     \* ws.isAlive
    hbAwaiting,    \* the last heartbeat pinged the connection and no pong came since
    hbParity,      \* parity of the number of heartbeat ticks so far
    clients,       \* clients.caller and clients.agent
    servicesAsr,   \* services.asr !== null
    jobs,          \* handleAudioChunk invocations suspended at an await
    out,           \* the messages the last step sent
    crashed        \* an exception escaped an event handler

backendVars == <<wsState, wsRole, wsIsAlive, hbAwaiting, hbParity,
                 clients, servicesAsr, jobs, out, crashed>>

\* ------------------------------------------------------ /api/token state
VARIABLES
    tokPc,         \* "idle", or "fetching" while GET awaits the upstream call
    tokKey,        \* apiKey of the request in progress
    tokLog         \* the requests answered so far, oldest first

tokenVars == <<tokPc, tokKey, tokLog>>

\* ------------------------------------------------------------ desk state
VARIABLES
    role,          \* active speaker
    roleLang,      \* [caller, agent] languages
    voice,
    connected,
    busy,
    refs,          \* pcRef.current and dcRef.current are set
    dcState,       \* readyState of dcRef.current's channel: "none", "connecting", "open", "closed"
    pendingMsgs,   \* pendingMsgsRef.current
    lastSent,      \* the last message sent on the data channel now referenced
    connectPc,     \* connect(): "idle", "token" or "negotiate" (the await it is at)
    connectEnv     \* direction and voice of the render connect() was called in

deskVars == <<role, roleLang, voice, connected, busy, refs, dcState,
              pendingMsgs, lastSent, connectPc, connectEnv>>

vars == <<callVars, backendVars, tokenVars, deskVars>>
nonCallVars == <<backendVars, tokenVars, deskVars>>
nonBackendVars == <<callVars, tokenVars, deskVars>>
nonTokenVars == <<callVars, backendVars, deskVars>>
nonDeskVars == <<callVars, backendVars, tokenVars>>

NoAgent == 0
NoSub == [live |-> FALSE, callState |-> "idle", isAvailable |-> FALSE]

\* profile.language of each agent (AgentDashboard.tsx:33,95)
AgentLanguage(a) == IF a = 1 THEN "spanish" ELSE "english"

\* position of a status in waiting -> ringing -> connected -> ended
StatusRank(s) ==
    CASE s = "none" -> 0
      [] s = "waiting" -> 1
      [] s = "ringing" -> 2
      [] s = "connected" -> 3
      [] s = "ended" -> 4

NoRow == [status |-> "none", agent_id |-> NoAgent, agent_language |-> "none"]

\* listenForIncomingCalls: drop the old channel, subscribe a callback that
\* closes over the callState and isAvailable of the calling render.
Listen(cs, avail) == [live |-> TRUE, callState |-> cs, isAvailable |-> avail]

\* what a handler of an idle dashboard closes over
IdleEnv == [callState |-> "idle", currentSession |-> 0]

\* The dashboards after mount: profiles are loaded and the
\* [user, isAvailable] effect of every agent has subscribed.
CallInit ==
    /\ rows = [s \in SessionIds |-> NoRow]
    /\ nSessions = 0
    /\ rang = {}
    /\ answered = {}
    /\ agAvail = [a \in Agents |-> TRUE]
    /\ agState = [a \in Agents |-> "idle"]
    /\ agSession = [a \in Agents |-> 0]
    /\ agSub = [a \in Agents |-> Listen("idle", TRUE)]
    /\ agInbox = [a \in Agents |-> {}]
    /\ agTimers = [a \in Agents |-> <<>>]
    /\ agRealtime = [a \in Agents |-> FALSE]
    /\ clState = "idle"
    /\ clSession = 0
    /\ clPending = 0
    /\ clStartEnv = IdleEnv
    /\ clSubs = {}
    /\ clInbox = <<>>
    /\ clTimers = <<>>
    /\ clEndTimers = 0
    /\ clRealtime = 0
    /\ clRing = FALSE

\* ------------------------------------------------------- database helpers

\* supabase.from('call_sessions').update(fields).eq('id', id): the row is
\* overwritten whatever its current status; subscribers of the row get
\* payload.new.
UpdateRow(id, newRow) ==
    /\ id \in clSubs => Len(clInbox) < MaxInbox
    /\ rows' = [rows EXCEPT ![id] = newRow]
    /\ clInbox' = IF id \in clSubs
                    THEN Append(clInbox, [id |-> id, status |-> newRow.status])
                    ELSE clInbox

\* guard of the INSERT callback, evaluated on the captured values
AcceptsCall(sub) == sub.callState = "idle" /\ sub.isAvailable

\* ------------------------------------------------------------ agent side

\* availability button (disabled unless callState is idle); the effect
\* cleanup unsubscribes, then the effect re-subscribes when available.
ToggleAvailable(a) ==
    /\ agState[a] = "idle"
    /\ agAvail' = [agAvail EXCEPT ![a] = ~agAvail[a]]
    /\ agSub' = [agSub EXCEPT ![a] =
                   IF ~agAvail[a]
                     THEN Listen(agState[a], TRUE)
                     ELSE NoSub]
    /\ agInbox' = [agInbox EXCEPT ![a] = {}]
    /\ UNCHANGED <<rows, nSessions, rang, answered,
                   agState, agSession, agTimers, agRealtime, clState, clSession,
                   clPending, clStartEnv, clSubs, clInbox, clTimers, clEndTimers,
                   clRealtime, clRing>>
    /\ UNCHANGED nonCallVars

\* the INSERT notification for session s reaches agent a; the callback runs
\* handleIncomingCall when its captured guard allows it.
DeliverInsert(a, s) ==
    /\ s \in agInbox[a]
    /\ agSub[a].live
    /\ agInbox' = [agInbox EXCEPT ![a] = @ \ {s}]
    /\ IF AcceptsCall(agSub[a])
         THEN /\ agSession' = [agSession EXCEPT ![a] = s]
              /\ agState' = [agState EXCEPT ![a] = "incoming"]
              /\ UpdateRow(s, [status |-> "ringing", agent_id |-> a,
                               agent_language |-> AgentLanguage(a)])
              /\ rang' = rang \cup {s}
         ELSE UNCHANGED <<agSession, agState, rows, clInbox, rang>>
    /\ UNCHANGED <<nSessions, answered, agAvail, agSub, agTimers,
                   agRealtime, clState, clSession, clPending, clStartEnv, clSubs, clTimers,
                   clEndTimers, clRealtime, clRing>>
    /\ UNCHANGED nonCallVars

\* the agent presses the call button while it shows "Answer Call"
AnswerCall(a) ==
    /\ agState[a] = "incoming"
    /\ IF agSession[a] = 0
         THEN UNCHANGED <<agState, rows, clInbox, answered, agRealtime>>
         ELSE /\ agState' = [agState EXCEPT ![a] = "connected"]
              /\ UpdateRow(agSession[a], [rows[agSession[a]] EXCEPT !.status = "connected"])
              /\ answered' = answered \cup {agSession[a]}
              /\ agRealtime' = [agRealtime EXCEPT ![a] = TRUE]
    /\ UNCHANGED <<nSessions, rang, agAvail, agSession, agSub, agInbox,
                   agTimers, clState, clSession, clPending, clStartEnv, clSubs, clTimers,
                   clEndTimers, clRealtime, clRing>>
    /\ UNCHANGED nonCallVars

\* the agent presses the call button while it shows "End Call"
AgentEndCall(a) ==
    /\ agState[a] = "connected"
    /\ Len(agTimers[a]) < MaxTimers
    /\ IF agSession[a] # 0
         THEN UpdateRow(agSession[a], [rows[agSession[a]] EXCEPT !.status = "ended"])
         ELSE UNCHANGED <<rows, clInbox>>
    /\ agState' = [agState EXCEPT ![a] = "ended"]
    /\ agRealtime' = [agRealtime EXCEPT ![a] = FALSE]
    /\ agTimers' = [agTimers EXCEPT ![a] =
                      Append(@, [callState |-> agState[a], isAvailable |-> agAvail[a]])]
    /\ UNCHANGED <<nSessions, rang, answered, agAvail, agSession,
                   agSub, agInbox, clState, clSession, clPending, clStartEnv, clSubs,
                   clTimers, clEndTimers, clRealtime, clRing>>
    /\ UNCHANGED nonCallVars

\* the 2 s timeout of endCall fires, with the values endCall closed over
AgentEndTimer(a) ==
    /\ agTimers[a] # <<>>
    /\ agTimers' = [agTimers EXCEPT ![a] = Tail(@)]
    /\ agState' = [agState EXCEPT ![a] = "idle"]
    /\ agSession' = [agSession EXCEPT ![a] = 0]
    /\ IF Head(agTimers[a]).isAvailable
         THEN /\ agSub' = [agSub EXCEPT ![a] =
                             Listen(Head(agTimers[a]).callState,
                                    Head(agTimers[a]).isAvailable)]
              /\ agInbox' = [agInbox EXCEPT ![a] = {}]
         ELSE UNCHANGED <<agSub, agInbox>>
    /\ UNCHANGED <<rows, nSessions, rang, answered,
                   agAvail, agRealtime, clState, clSession, clPending, clStartEnv, clSubs,
                   clInbox, clTimers, clEndTimers, clRealtime, clRing>>
    /\ UNCHANGED nonCallVars

\* ----------------------------------------------------------- caller side

\* insert(...).select().single(): a new row with status waiting; every live
\* 'waiting_calls' channel is notified of the INSERT.
InsertRow(id) ==
    /\ rows' = [rows EXCEPT ![id] = [NoRow EXCEPT !.status = "waiting"]]
    /\ nSessions' = id
    /\ agInbox' = [a \in Agents |->
                     IF agSub[a].live THEN agInbox[a] \cup {id} ELSE agInbox[a]]

\* the caller presses the call button while it shows "Start Call":
\* setCallState('waiting') and the insert request; the rest of startCall
\* runs when the insert answers.  One startCall is in progress at a time.
StartCall(ok) ==
    /\ clState = "idle"
    /\ clPending = 0
    /\ nSessions < MaxSessions
    /\ clState' = "waiting"
    /\ clStartEnv' = [callState |-> clState, currentSession |-> clSession]
    /\ IF ok
         THEN /\ InsertRow(nSessions + 1)
              /\ clPending' = nSessions + 1
         ELSE /\ clPending' = -1
              /\ UNCHANGED <<rows, nSessions, agInbox>>
    /\ UNCHANGED <<rang, answered, agAvail, agState, agSession,
                   agSub, agTimers, agRealtime, clSession, clSubs, clInbox,
                   clTimers, clEndTimers, clRealtime, clRing>>
    /\ UNCHANGED nonCallVars

\* the insert answered: on error the catch block resets callState; otherwise
\* currentSession is set, the row's UPDATE channel is subscribed and the
\* 30 s timeout is armed.  The timeout callback closes over the callState
\* and currentSession of the render in which the button was pressed, and
\* over the const session.
StartCallResume ==
    /\ clPending # 0
    /\ clPending' = 0
    /\ clStartEnv' = IdleEnv
    /\ IF clPending = -1
         THEN /\ clState' = "idle"
              /\ UNCHANGED <<clSession, clSubs, clTimers>>
         ELSE /\ clSession' = clPending
              /\ clSubs' = clSubs \cup {clPending}
              /\ clTimers' = Append(clTimers, [callState |-> clStartEnv.callState,
                                          currentSession |-> clStartEnv.currentSession,
                                          session |-> clPending])
              /\ UNCHANGED clState
    /\ UNCHANGED <<rows, nSessions, rang, answered,
                   agAvail, agState, agSession, agSub, agInbox, agTimers,
                   agRealtime, clInbox, clEndTimers, clRealtime, clRing>>
    /\ UNCHANGED nonCallVars

CallerOnUpdateSkipsAnswer(cur, status) ==
    IF status \in {"ringing", "connected"} THEN "connected" ELSE cur

\* callState after the UPDATE callback saw payload.new.status
CallerOnUpdate(cur, status) ==
    IF status = "ringing" THEN "ringing"
    ELSE IF status = "connected" THEN "connected"
    ELSE cur

\* the oldest UPDATE notification reaches the caller's callback
DeliverUpdate ==
    /\ clInbox # <<>>
    /\ clInbox' = Tail(clInbox)
    /\ clState' = CallerOnUpdate(clState, Head(clInbox).status)
    /\ clRing' = IF Head(clInbox).status = "ringing" THEN TRUE
                 ELSE IF Head(clInbox).status = "connected" THEN FALSE
                 ELSE clRing
    /\ clRealtime' = IF Head(clInbox).status = "connected"
                       THEN Head(clInbox).id ELSE clRealtime
    /\ UNCHANGED <<rows, nSessions, rang, answered,
                   agAvail, agState, agSession, agSub, agInbox, agTimers,
                   agRealtime, clSession, clPending, clStartEnv, clSubs, clTimers,
                   clEndTimers>>
    /\ UNCHANGED nonCallVars

\* endCall of the caller, run with the currentSession the caller of endCall
\* sees (the current render for the button, the captured one for a timer)
CallerEndCallWith(session) ==
    /\ clEndTimers < MaxTimers
    /\ IF session # 0
         THEN UpdateRow(session, [rows[session] EXCEPT !.status = "ended"])
         ELSE UNCHANGED <<rows, clInbox>>
    /\ clState' = "ended"
    /\ clRing' = FALSE
    /\ clRealtime' = 0
    /\ clEndTimers' = clEndTimers + 1

\* the caller presses the call button while it shows "End Call"
CallerEndCall ==
    /\ clState = "connected"
    /\ CallerEndCallWith(clSession)
    /\ UNCHANGED <<nSessions, rang, answered, agAvail, agState,
                   agSession, agSub, agInbox, agTimers, agRealtime, clSession,
                   clPending, clStartEnv, clSubs, clTimers>>
    /\ UNCHANGED nonCallVars

\* the 30 s timeout of startCall fires; it tests the callState it closed over
AutoTimeout ==
    /\ clTimers # <<>>
    /\ clTimers' = Tail(clTimers)
    /\ IF Head(clTimers).callState = "waiting"
         THEN CallerEndCallWith(Head(clTimers).currentSession)
         ELSE UNCHANGED <<rows, clInbox, clState, clRing,
                          clRealtime, clEndTimers>>
    /\ UNCHANGED <<nSessions, rang, answered, agAvail, agState,
                   agSession, agSub, agInbox, agTimers, agRealtime, clSession,
                   clPending, clStartEnv, clSubs>>
    /\ UNCHANGED nonCallVars

\* the 2 s timeout of the caller's endCall fires
CallerEndTimer ==
    /\ clEndTimers > 0
    /\ clEndTimers' = clEndTimers - 1
    /\ clState' = "idle"
    /\ clSession' = 0
    /\ UNCHANGED <<rows, nSessions, rang, answered,
                   agAvail, agState, agSession, agSub, agInbox, agTimers,
                   agRealtime, clPending, clStartEnv, clSubs, clInbox, clTimers,
                   clRealtime, clRing>>
    /\ UNCHANGED nonCallVars

\* ================================================================ backend
\* backend/server.js: the mock WebSocket server.
\* Of the health_check messages only those of the heartbeat are modelled;
\* the one sent 1 s after a connection opens changes no state.

Conns == 1..NumConns
Languages == {"marathi", "spanish", "english"}
AudioData == {"pcm-a", "pcm-b"}
\* data.role of a subscribe message: the two roles, some other string, or
\* no role at all
SubscribeRoles == {"caller", "agent", "other", "null"}

\* the literal of server.js:228 and :243 (Devanagari: "namaskar, mala madat
\* havi aahe"), written in ASCII
MarathiText == "namaskar, mala madat havi aahe"
HolaText == "Hola, necesito ayuda"
NotAvailableText == "Translation not available"

BackendInit ==
    /\ wsState = [c \in Conns |-> "none"]
    /\ wsRole = [c \in Conns |-> "null"]
    /\ wsIsAlive = [c \in Conns |-> TRUE]
    /\ hbAwaiting = [c \in Conns |-> FALSE]
    /\ hbParity = FALSE
    /\ clients = [caller |-> {}, agent |-> {}]
    /\ servicesAsr = FALSE
    /\ jobs = {}
    /\ out = {}
    /\ crashed = FALSE

GetTargetLanguageSwapped(sourceLanguage) ==
    IF sourceLanguage = "marathi" THEN "marathi" ELSE "spanish"

GetTargetLanguage(sourceLanguage) ==
    IF sourceLanguage = "marathi" THEN "spanish" ELSE "marathi"

\* processASR(audioData, language).text
ProcessASR(audioData, language) ==
    IF language = "marathi" THEN MarathiText ELSE HolaText

\* the translations table of processTranslation, keyed source-target
Translations ==
    [k \in {<<"marathi", "spanish">>, <<"spanish", "marathi">>} |->
        IF k = <<"marathi", "spanish">> THEN HolaText ELSE MarathiText]

\* processTranslation(text, sourceLanguage, targetLanguage).translatedText
ProcessTranslation(text, sourceLanguage, targetLanguage) ==
    IF <<sourceLanguage, targetLanguage>> \in DOMAIN Translations
      THEN Translations[<<sourceLanguage, targetLanguage>>]
      ELSE NotAvailableText

\* targetRole of handleAudioChunk
TargetRole(senderRole) == IF senderRole = "caller" THEN "agent" ELSE "caller"

ErrorMsg(c) == [type |-> "error", to |-> c, from |-> c, text |-> "Invalid message format",
                lang |-> "none", audio |-> "none", source |-> "none"]

\* wss.on('connection')
WsConnect(c) ==
    /\ ~crashed
    /\ wsState[c] = "none"
    /\ wsState' = [wsState EXCEPT ![c] = "open"]
    /\ wsRole' = [wsRole EXCEPT ![c] = "null"]
    /\ wsIsAlive' = [wsIsAlive EXCEPT ![c] = TRUE]
    /\ hbAwaiting' = [hbAwaiting EXCEPT ![c] = FALSE]
    /\ out' = {}
    /\ UNCHANGED <<hbParity, clients, servicesAsr, jobs, crashed>>
    /\ UNCHANGED nonBackendVars

\* ws.on('close'): a role that names no client set makes delete throw
\* outside any try block
WsClose(c) ==
    /\ ~crashed
    /\ wsState[c] = "open"
    /\ wsState' = [wsState EXCEPT ![c] = "closed"]
    /\ out' = {}
    /\ IF wsRole[c] \in {"caller", "agent"}
         THEN /\ clients' = [clients EXCEPT ![wsRole[c]] = @ \ {c}]
              /\ UNCHANGED crashed
         ELSE /\ crashed' = (wsRole[c] = "other")
              /\ UNCHANGED clients
    /\ UNCHANGED <<wsRole, wsIsAlive, hbAwaiting, hbParity, servicesAsr, jobs>>
    /\ UNCHANGED nonBackendVars

\* handleClientMessage, case 'subscribe': ws.role is assigned before
\* clients[data.role].add, which throws for a role naming no client set; the
\* message handler answers a throw with the error reply
Subscribe(c, dataRole) ==
    /\ ~crashed
    /\ wsState[c] = "open"
    /\ wsRole' = [wsRole EXCEPT ![c] = dataRole]
    /\ IF dataRole \in {"caller", "agent"}
         THEN /\ clients' = [clients EXCEPT ![dataRole] = @ \cup {c}]
              /\ out' = {}
         ELSE /\ out' = {ErrorMsg(c)}
              /\ UNCHANGED clients
    /\ UNCHANGED <<wsState, wsIsAlive, hbAwaiting, hbParity, servicesAsr, jobs, crashed>>
    /\ UNCHANGED nonBackendVars

\* a message that JSON.parse rejects: the catch block of the message handler
\* sends the error reply
InvalidJson(c) ==
    /\ ~crashed
    /\ wsState[c] = "open"
    /\ out' = {ErrorMsg(c)}
    /\ UNCHANGED <<wsState, wsRole, wsIsAlive, hbAwaiting, hbParity,
                   clients, servicesAsr, jobs, crashed>>
    /\ UNCHANGED nonBackendVars

\* handleStartRecording
StartRecording(c, language) ==
    /\ ~crashed
    /\ wsState[c] = "open"
    /\ servicesAsr' = TRUE
    /\ out' = {[type |-> "recording_started", to |-> c, from |-> c, text |-> "none",
                lang |-> language, audio |-> "none", source |-> "none"]}
    /\ UNCHANGED <<wsState, wsRole, wsIsAlive, hbAwaiting, hbParity, clients, jobs, crashed>>
    /\ UNCHANGED nonBackendVars

AudioChunkUnguarded(c, language, audioData) ==
    /\ ~crashed
    /\ wsState[c] = "open"
    /\ Cardinality(jobs) < MaxJobs
    /\ out' = {}
    /\ jobs' = jobs \cup {[ws |-> c, language |-> language, audioData |-> audioData,
                           stage |-> "asr", asrText |-> "none",
                           translatedText |-> "none"]}
    /\ UNCHANGED <<wsState, wsRole, wsIsAlive, hbAwaiting, hbParity, clients,
                   servicesAsr, crashed>>
    /\ UNCHANGED nonBackendVars

\* handleAudioChunk up to its first await: nothing happens without the ASR
\* service, otherwise processASR is started
AudioChunk(c, language, audioData) ==
    /\ ~crashed
    /\ wsState[c] = "open"
    /\ Cardinality(jobs) < MaxJobs
    /\ out' = {}
    /\ jobs' = IF servicesAsr
                 THEN jobs \cup {[ws |-> c, language |-> language, audioData |-> audioData,
                                  stage |-> "asr", asrText |-> "none",
                                  translatedText |-> "none"]}
                 ELSE jobs
    /\ UNCHANGED <<wsState, wsRole, wsIsAlive, hbAwaiting, hbParity, clients, servicesAsr, crashed>>
    /\ UNCHANGED nonBackendVars

\* ws.send on a socket that is no longer open: depending on the version of
\* the ws package it throws (the catch block of handleAudioChunk then ends
\* the handler) or it drops the message.
\* processASR resolved: asr_result goes to the sender, processTranslation starts
AsrDone(j, sendThrows) ==
    /\ ~crashed
    /\ j \in jobs
    /\ j.stage = "asr"
    /\ LET text == ProcessASR(j.audioData, j.language)
       IN /\ out' = IF wsState[j.ws] = "open"
                      THEN {[type |-> "asr_result", to |-> j.ws, from |-> j.ws,
                             text |-> text, lang |-> j.language,
                             audio |-> j.audioData, source |-> "none"]}
                      ELSE {}
          /\ jobs' = IF wsState[j.ws] # "open" /\ sendThrows
                       THEN jobs \ {j}
                       ELSE (jobs \ {j}) \cup
                            {[j EXCEPT !.stage = "translate", !.asrText = text]}
    /\ UNCHANGED <<wsState, wsRole, wsIsAlive, hbAwaiting, hbParity, clients, servicesAsr, crashed>>
    /\ UNCHANGED nonBackendVars

\* processTranslation resolved: translation_result goes to the sender,
\* processTTS starts
TranslateDone(j, sendThrows) ==
    /\ ~crashed
    /\ j \in jobs
    /\ j.stage = "translate"
    /\ LET text == ProcessTranslation(j.asrText, j.language, GetTargetLanguage(j.language))
       IN /\ out' = IF wsState[j.ws] = "open"
                      THEN {[type |-> "translation_result", to |-> j.ws, from |-> j.ws,
                             text |-> text, lang |-> j.language,
                             audio |-> j.audioData, source |-> j.asrText]}
                      ELSE {}
          /\ jobs' = IF wsState[j.ws] # "open" /\ sendThrows
                       THEN jobs \ {j}
                       ELSE (jobs \ {j}) \cup
                            {[j EXCEPT !.stage = "tts", !.translatedText = text]}
    /\ UNCHANGED <<wsState, wsRole, wsIsAlive, hbAwaiting, hbParity, clients, servicesAsr, crashed>>
    /\ UNCHANGED nonBackendVars

\* processTTS resolved: tts_ready goes to every open client of the target role
TtsDone(j) ==
    /\ ~crashed
    /\ j \in jobs
    /\ j.stage = "tts"
    /\ jobs' = jobs \ {j}
    /\ out' = {[type |-> "tts_ready", to |-> c, from |-> j.ws,
                text |-> j.translatedText, lang |-> j.language,
                audio |-> j.audioData, source |-> "none"] :
               c \in {d \in clients[TargetRole(wsRole[j.ws])] : wsState[d] = "open"}}
    /\ UNCHANGED <<wsState, wsRole, wsIsAlive, hbAwaiting, hbParity, clients, servicesAsr, crashed>>
    /\ UNCHANGED nonBackendVars

HealthCheck(c) ==
    [type |-> "health_check", to |-> c, from |-> c, text |-> "none",
     lang |-> "none", audio |-> "none", source |-> "none"]

PongUnheard(c) ==
    /\ ~crashed
    /\ wsState[c] = "open"
    /\ hbAwaiting' = [hbAwaiting EXCEPT ![c] = FALSE]
    /\ out' = {}
    /\ UNCHANGED <<wsState, wsRole, wsIsAlive, hbParity, clients, servicesAsr,
                   jobs, crashed>>
    /\ UNCHANGED nonBackendVars

\* ws.on('pong')
Pong(c) ==
    /\ ~crashed
    /\ wsState[c] = "open"
    /\ wsIsAlive' = [wsIsAlive EXCEPT ![c] = TRUE]
    /\ hbAwaiting' = [hbAwaiting EXCEPT ![c] = FALSE]
    /\ out' = {}
    /\ UNCHANGED <<wsState, wsRole, hbParity, clients, servicesAsr, jobs, crashed>>
    /\ UNCHANGED nonBackendVars

\* the 30 s interval: every connection of wss.clients whose isAlive is false
\* is terminated (its close handler runs as in WsClose); every other one
\* gets isAlive false, a ping and a health check
HeartbeatTick ==
    /\ ~crashed
    /\ LET dead == {c \in Conns : wsState[c] = "open" /\ wsIsAlive[c] = FALSE}
           kept == {c \in Conns : wsState[c] = "open" /\ wsIsAlive[c] # FALSE}
       IN /\ wsState' = [c \in Conns |-> IF c \in dead THEN "terminated" ELSE wsState[c]]
          /\ wsIsAlive' = [c \in Conns |-> IF c \in kept THEN FALSE ELSE wsIsAlive[c]]
          /\ hbAwaiting' = [c \in Conns |-> IF c \in kept THEN TRUE ELSE hbAwaiting[c]]
          /\ clients' = [caller |-> clients.caller \ {c \in dead : wsRole[c] = "caller"},
                         agent |-> clients.agent \ {c \in dead : wsRole[c] = "agent"}]
          /\ crashed' = (\E c \in dead : wsRole[c] = "other")
          /\ out' = {HealthCheck(c) : c \in kept}
    /\ hbParity' = ~hbParity
    /\ UNCHANGED <<wsRole, servicesAsr, jobs>>
    /\ UNCHANGED nonBackendVars

\* ============================================================ /api/token
\* app/api/token/route.ts: GET.

Placeholder == "your_openai_api_key_here"
\* process.env.OPENAI_API_KEY: not set, empty, the placeholder, a real key
ApiKeys == {"undefined", "", Placeholder, "sk-live"}

\* what the upstream call does: fetch rejects, the body is not JSON, or a
\* JSON body arrives with response.ok and client_secret.value as given
UpstreamOutcomes ==
    {[kind |-> "fetch_throws", ok |-> FALSE, secret |-> "absent"],
     [kind |-> "json_throws", ok |-> TRUE, secret |-> "absent"]}
    \cup [kind : {"json"}, ok : BOOLEAN, secret : {"absent", "empty", "value"}]

TokenInit ==
    /\ tokPc = "idle"
    /\ tokKey = "undefined"
    /\ tokLog = <<>>

KeyRejectedOnlyWhenMissing(apiKey) == apiKey \in {"undefined", ""}

\* the two early returns: !apiKey, and apiKey equal to the placeholder
KeyRejected(apiKey) == apiKey \in {"undefined", ""} \/ apiKey = Placeholder

\* the response GET returns once the upstream call has settled
UpstreamResponse(o) ==
    IF o.kind # "json"
      THEN [status |-> 500, error |-> "Token generation failed", body |-> "error"]
    ELSE IF ~o.ok
      THEN [status |-> 500, error |-> "Failed to create client secret", body |-> "error"]
    ELSE IF o.secret # "value"
      THEN [status |-> 500, error |-> "Invalid response from OpenAI API - no client secret",
            body |-> "error"]
    ELSE [status |-> 200, error |-> "none", body |-> "upstream"]

Answered(apiKey, upstream, outcome, resp) ==
    [apiKey |-> apiKey, upstream |-> upstream, outcome |-> outcome, resp |-> resp]

NoOutcome == [kind |-> "none", ok |-> FALSE, secret |-> "absent"]

\* GET up to its first await
TokenGet(apiKey) ==
    /\ tokPc = "idle"
    /\ Len(tokLog) < MaxRequests
    /\ IF KeyRejected(apiKey)
         THEN /\ tokLog' = Append(tokLog,
                     Answered(apiKey, FALSE, NoOutcome,
                              [status |-> 500,
                               error |-> IF apiKey = Placeholder
                                           THEN "Please set a valid OPENAI_API_KEY in your .env file"
                                           ELSE "Missing OPENAI_API_KEY environment variable",
                               body |-> "error"]))
              /\ UNCHANGED <<tokPc, tokKey>>
         ELSE /\ tokPc' = "fetching"
              /\ tokKey' = apiKey
              /\ UNCHANGED tokLog
    /\ UNCHANGED nonTokenVars

\* the upstream call settles
TokenUpstream(o) ==
    /\ tokPc = "fetching"
    /\ tokPc' = "idle"
    /\ tokLog' = Append(tokLog, Answered(tokKey, TRUE, o, UpstreamResponse(o)))
    /\ UNCHANGED tokKey
    /\ UNCHANGED nonTokenVars

\* ======================================================= single-page desk
\* app/page.tsx: the session.update messages of ASJServiceDesk.

DeskLangs == {"marathi", "spanish", "english"}
Voices == {"coral", "alloy"}

\* langLabel: the label of LANGUAGE_OPTIONS, or the code itself
LangLabel(code) ==
    CASE code = "marathi" -> "Marathi"
      [] code = "spanish" -> "Spanish"
      [] code = "english" -> "English"
      [] OTHER -> code

\* buildInstruction(src, dst): the template text is fixed, the message is
\* determined by the two labels it interpolates
BuildInstruction(src, dst) == [hear |-> src, into |-> dst]

\* the session.update message for a direction and a voice
SessionUpdate(source, target, v) ==
    [type |-> "session.update",
     instructions |-> BuildInstruction(LangLabel(source), LangLabel(target)),
     voice |-> v]

NoMsg == [type |-> "none", instructions |-> BuildInstruction("none", "none"),
          voice |-> "none"]

\* direction of the current render
DirSource == roleLang[role]
DirTarget == IF role = "caller" THEN roleLang.agent ELSE roleLang.caller

DeskInit ==
    /\ role = "caller"
    /\ roleLang = [caller |-> "marathi", agent |-> "spanish"]
    /\ voice = "coral"
    /\ connected = FALSE
    /\ busy = FALSE
    /\ refs = FALSE
    /\ dcState = "none"
    /\ pendingMsgs = <<>>
    /\ lastSent = NoMsg
    /\ connectPc = "idle"
    /\ connectEnv = [source |-> "marathi", target |-> "spanish", voice |-> "coral"]

\* sendJSON(obj): send on an open channel, queue otherwise
SendJSON(obj) ==
    IF refs /\ dcState = "open"
      THEN /\ lastSent' = obj
           /\ UNCHANGED pendingMsgs
      ELSE /\ pendingMsgs' = Append(pendingMsgs, obj)
           /\ UNCHANGED lastSent

\* the [direction.source, direction.target, role, voice] effect, run after a
\* render in which one of them changed, with the values of that render
PushLiveUpdate(r, rl, v) ==
    IF refs
      THEN SendJSON(SessionUpdate(rl[r],
                                  IF r = "caller" THEN rl.agent ELSE rl.caller, v))
      ELSE UNCHANGED <<pendingMsgs, lastSent>>

\* the effect runs only when a dependency changed
DepsChanged(r, rl, v) ==
    \/ r # role
    \/ v # voice
    \/ rl[r] # DirSource
    \/ (IF r = "caller" THEN rl.agent ELSE rl.caller) # DirTarget

RoomToQueue == Len(pendingMsgs) < MaxPending

Render(r, rl, v) ==
    /\ RoomToQueue
    /\ role' = r
    /\ roleLang' = rl
    /\ voice' = v
    /\ IF DepsChanged(r, rl, v)
         THEN PushLiveUpdate(r, rl, v)
         ELSE UNCHANGED <<pendingMsgs, lastSent>>
    /\ UNCHANGED <<connected, busy, refs, dcState, connectPc, connectEnv>>

\* role buttons
SetRole(r) ==
    /\ r # role
    /\ Render(r, roleLang, voice)
    /\ UNCHANGED nonDeskVars

\* the two language selects
SetRoleLang(who, l) ==
    /\ l # roleLang[who]
    /\ Render(role, [roleLang EXCEPT ![who] = l], voice)
    /\ UNCHANGED nonDeskVars

\* Swap button
SwapLanguages ==
    /\ roleLang.caller # roleLang.agent
    /\ Render(role, [caller |-> roleLang.agent, agent |-> roleLang.caller], voice)
    /\ UNCHANGED nonDeskVars

\* voice select
SetVoice(v) ==
    /\ v # voice
    /\ Render(role, roleLang, v)
    /\ UNCHANGED nonDeskVars

\* disconnect(): the channel and the peer connection are closed and dropped
DisconnectBody ==
    /\ refs' = FALSE
    /\ dcState' = "none"
    /\ connected' = FALSE
    /\ lastSent' = NoMsg

\* Connect button (shown while not connected, disabled while busy):
\* connect() up to the await of /api/token
ConnectClick ==
    /\ ~connected
    /\ ~busy
    /\ connectPc = "idle"
    /\ busy' = TRUE
    /\ connectPc' = "token"
    /\ connectEnv' = [source |-> DirSource, target |-> DirTarget, voice |-> voice]
    /\ UNCHANGED <<role, roleLang, voice, connected, refs, dcState,
                   pendingMsgs, lastSent>>
    /\ UNCHANGED nonDeskVars

\* /api/token answered: without a key connect() throws, the catch block
\* disconnects; with a key the peer connection and the data channel are
\* created and connect() goes on to getUserMedia and the SDP exchange
ConnectToken(hasKey) ==
    /\ connectPc = "token"
    /\ IF hasKey
         THEN /\ refs' = TRUE
              /\ dcState' = "connecting"
              /\ lastSent' = NoMsg
              /\ connectPc' = "negotiate"
              /\ UNCHANGED <<connected, busy>>
         ELSE /\ DisconnectBody
              /\ connectPc' = "idle"
              /\ busy' = FALSE
    /\ UNCHANGED <<role, roleLang, voice, pendingMsgs, connectEnv>>
    /\ UNCHANGED nonDeskVars

\* getUserMedia, createOffer, the SDP POST and setRemoteDescription settled:
\* on failure the catch block disconnects; otherwise step 4 queues the
\* session.update built from the direction and voice connect() closed over
ConnectNegotiated(ok) ==
    /\ connectPc = "negotiate"
    /\ RoomToQueue
    /\ connectPc' = "idle"
    /\ busy' = FALSE
    /\ IF ok
         THEN /\ SendJSON(SessionUpdate(connectEnv.source, connectEnv.target,
                                        connectEnv.voice))
              /\ UNCHANGED <<refs, dcState, connected>>
         ELSE /\ DisconnectBody
              /\ UNCHANGED pendingMsgs
    /\ UNCHANGED <<role, roleLang, voice, connectEnv>>
    /\ UNCHANGED nonDeskVars

\* the data channel's 'open' event, after the remote description is set:
\* the queue is flushed in order
DcOpen ==
    /\ refs
    /\ dcState = "connecting"
    /\ connectPc = "idle"
    /\ dcState' = "open"
    /\ connected' = TRUE
    /\ lastSent' = IF pendingMsgs # <<>> THEN pendingMsgs[Len(pendingMsgs)] ELSE lastSent
    /\ pendingMsgs' = <<>>
    /\ UNCHANGED <<role, roleLang, voice, busy, refs, connectPc, connectEnv>>
    /\ UNCHANGED nonDeskVars

\* the data channel's 'close' event
DcClose ==
    /\ refs
    /\ dcState = "open"
    /\ dcState' = "closed"
    /\ connected' = FALSE
    /\ UNCHANGED <<role, roleLang, voice, busy, refs, pendingMsgs, lastSent,
                   connectPc, connectEnv>>
    /\ UNCHANGED nonDeskVars

\* Disconnect button (shown while connected)
Disconnect ==
    /\ connected
    /\ ~busy
    /\ DisconnectBody
    /\ UNCHANGED <<role, roleLang, voice, busy, pendingMsgs, connectPc, connectEnv>>
    /\ UNCHANGED nonDeskVars

\* ======================================================== specifications

Init == CallInit /\ BackendInit /\ TokenInit /\ DeskInit

NextCall ==
    \/ \E a \in Agents : ToggleAvailable(a)
    \/ \E a \in Agents, s \in SessionIds : DeliverInsert(a, s)
    \/ \E a \in Agents : AnswerCall(a)
    \/ \E a \in Agents : AgentEndCall(a)
    \/ \E a \in Agents : AgentEndTimer(a)
    \/ \E ok \in BOOLEAN : StartCall(ok)
    \/ StartCallResume
    \/ DeliverUpdate
    \/ CallerEndCall
    \/ AutoTimeout
    \/ CallerEndTimer

NextBackend ==
    \/ \E c \in Conns : WsConnect(c)
    \/ \E c \in Conns : WsClose(c)
    \/ \E c \in Conns, r \in SubscribeRoles : Subscribe(c, r)
    \/ \E c \in Conns : InvalidJson(c)
    \/ \E c \in Conns, l \in Languages : StartRecording(c, l)
    \/ \E c \in Conns, l \in Languages, d \in AudioData : AudioChunk(c, l, d)
    \/ \E j \in jobs, t \in BOOLEAN : AsrDone(j, t)
    \/ \E j \in jobs, t \in BOOLEAN : TranslateDone(j, t)
    \/ \E j \in jobs : TtsDone(j)

\* connections, roles and the heartbeat interval; to the client sets a
\* termination by the heartbeat is what a close by the peer is
NextHeartbeat ==
    \/ \E c \in Conns : WsConnect(c)
    \/ \E c \in Conns : WsClose(c)
    \/ \E c \in Conns, r \in SubscribeRoles : Subscribe(c, r)
    \/ \E c \in Conns : Pong(c)
    \/ HeartbeatTick

NextToken ==
    \/ \E k \in ApiKeys : TokenGet(k)
    \/ \E o \in UpstreamOutcomes : TokenUpstream(o)

NextDesk ==
    \/ \E r \in {"caller", "agent"} : SetRole(r)
    \/ \E who \in {"caller", "agent"}, l \in DeskLangs : SetRoleLang(who, l)
    \/ SwapLanguages
    \/ \E v \in Voices : SetVoice(v)
    \/ ConnectClick
    \/ \E hasKey \in BOOLEAN : ConnectToken(hasKey)
    \/ \E ok \in BOOLEAN : ConnectNegotiated(ok)
    \/ DcOpen
    \/ DcClose
    \/ Disconnect

\* the call_sessions flow of one caller and the agents
SpecCall == Init /\ [][NextCall]_vars

\* the mock WebSocket backend
SpecBackend == Init /\ [][NextBackend]_vars

\* the heartbeat of the backend
SpecHeartbeat == Init /\ [][NextHeartbeat]_vars

\* GET /api/token
SpecToken == Init /\ [][NextToken]_vars

\* the single-page desk
SpecDesk == Init /\ [][NextDesk]_vars

\* ------------------------------------------------------------ properties

\* C1: no update moves a row's status backwards along
\* waiting -> ringing -> connected -> ended.
C1_StatusOnlyMovesForward ==
    [][\A s \in SessionIds :
          StatusRank(rows'[s].status) >= StatusRank(rows[s].status)]_vars

\* C2: an agent is moved to 'incoming' on a session only if, at that moment,
\* its callState is idle and isAvailable is true; an agent in 'incoming',
\* 'connected' or 'ended' is never switched to another session.
C2_OfferedOnlyWhenIdleAndAvailable ==
    [][\A a \in Agents :
          (/\ agState'[a] = "incoming"
           /\ (agState[a] # "incoming" \/ agSession'[a] # agSession[a]))
          => (agState[a] = "idle" /\ agAvail[a])]_vars

\* C3: when the 30 s timeout of startCall fires while the caller is still
\* 'waiting', endCall runs: the session row becomes 'ended' and callState
\* leaves 'waiting' (it becomes 'ended').
C3_AutoTimeoutEndsWaitingCall ==
    [][(/\ clTimers # <<>>
        /\ clTimers' = Tail(clTimers)
        /\ clState = "waiting")
       => (/\ clState' = "ended"
           /\ rows'[Head(clTimers).session].status = "ended")]_vars

C5_MockStringsFixedByLanguage ==
    \A m \in out :
        /\ m.type = "asr_result" =>
              m.text = (IF m.lang = "marathi" THEN MarathiText ELSE HolaText)
        /\ m.type = "translation_result" =>
              /\ m.text = (CASE m.lang = "marathi" -> HolaText
                             [] m.lang = "spanish" -> MarathiText
                             [] OTHER -> NotAvailableText)
              /\ m.source = (IF m.lang = "marathi" THEN MarathiText ELSE HolaText)

C5_Witness ==
    \E m \in out :
        /\ m.type = "translation_result"
        /\ m.lang = "spanish"
        /\ m.audio = "pcm-b"
        /\ m.text = MarathiText

\* C6: the tts_ready messages of an audio_chunk go to exactly the open
\* connections whose role is the opposite of the sender's role, never to the
\* sender nor to a connection of the sender's role.
C6_TtsGoesToOppositeRole ==
    LET tts == {m \in out : m.type = "tts_ready"}
    IN \A m \in tts :
          wsRole[m.from] \in {"caller", "agent"} =>
             /\ m.to # m.from
             /\ wsRole[m.to] # wsRole[m.from]
             /\ {x.to : x \in tts} =
                   {d \in Conns : /\ wsState[d] = "open"
                                  /\ wsRole[d] \in {"caller", "agent"}
                                  /\ wsRole[d] # wsRole[m.from]}

\* C7: GET /api/token answers 200 with the upstream body only when the key is
\* set and is not the placeholder, the upstream response is ok and carries
\* client_secret.value; otherwise, a thrown upstream call included, it
\* answers 500 with an error field; with a missing or placeholder key no
\* upstream request is made.
C7_TokenRouteStatus ==
    \A i \in 1..Len(tokLog) :
        LET e == tokLog[i]
            keyOk == e.apiKey \notin {"undefined", ""} /\ e.apiKey # Placeholder
            good == /\ keyOk
                    /\ e.outcome.kind = "json"
                    /\ e.outcome.ok
                    /\ e.outcome.secret = "value"
        IN /\ e.resp.status = 200 <=> good
           /\ e.resp.status = 200 => (e.resp.body = "upstream" /\ e.upstream)
           /\ e.resp.status # 200 => (e.resp.status = 500 /\ e.resp.error # "none")
           /\ ~keyOk => ~e.upstream

C7_Witness ==
    \E i, j \in 1..Len(tokLog) :
        /\ tokLog[i].resp.status = 200
        /\ tokLog[j].outcome.kind = "fetch_throws"
        /\ tokLog[j].resp.status = 500

\* C8: once connect() has finished and the data channel is open, the last
\* session.update sent on it is the one built from the current source and
\* target languages and the current voice.
C8_LastSessionUpdateIsCurrent ==
    (refs /\ dcState = "open" /\ connectPc = "idle")
    => lastSent = SessionUpdate(DirSource, DirTarget, voice)

\* C9: an agent that is idle and available (in particular after it ended a
\* call and its timeout re-subscribed) is moved to 'incoming' by the
\* notification of a waiting session.
C9_IdleAvailableAgentTakesNextCall ==
    [][\A a \in Agents :
          (/\ Cardinality(agInbox'[a]) < Cardinality(agInbox[a])
           /\ agTimers'[a] = agTimers[a]
           /\ agAvail'[a] = agAvail[a]
           /\ agState[a] = "idle"
           /\ agAvail[a])
          => agState'[a] = "incoming"]_vars

\* C10: at most one agent is 'connected' on a session, and the row's
\* agent_id and agent_language are those of the agent that answered.
C10_AtMostOneAgentPerSession ==
    \A s \in SessionIds :
        /\ Cardinality({a \in Agents : agState[a] = "connected" /\ agSession[a] = s}) <= 1
        /\ \A a \in Agents :
              (agState[a] = "connected" /\ agSession[a] = s)
              => (/\ rows[s].agent_id = a
                  /\ rows[s].agent_language = AgentLanguage(a))

\* C11: once endCall of either party has set the session row to 'ended', the
\* other party leaves 'connected' and hangs up its realtime handle: when
\* nothing is in flight any more (every notification delivered, every
\* timeout fired, no insert awaited), no party is 'connected', or holds a
\* realtime handle, on an 'ended' session.
C11_EndedCallReleasesBothParties ==
    LET quiescent ==
            /\ clInbox = <<>>
            /\ clTimers = <<>>
            /\ clEndTimers = 0
            /\ clPending = 0
            /\ \A a \in Agents : agInbox[a] = {} /\ agTimers[a] = <<>>
    IN quiescent =>
          /\ \A a \in Agents :
                (agSession[a] # 0 /\ rows[agSession[a]].status = "ended")
                => (agState[a] # "connected" /\ ~agRealtime[a])
          /\ (clSession # 0 /\ rows[clSession].status = "ended")
                => clState # "connected"
          /\ clRealtime # 0 => rows[clRealtime].status # "ended"

\* C12: after the caller's endCall callState is 'ended', then 'idle', and it
\* stays 'idle' until the next startCall; while the caller is 'ended' or
\* 'idle' no notification changes callState, starts the ring tone or starts
\* a realtime session.
C12_IdleUntilNextStartCall ==
    [][/\ clState = "ended" => clState' \in {"ended", "idle"}
       /\ clState = "idle" =>
             \/ clState' = "idle"
             \/ (clState' = "waiting" /\ clPending = 0 /\ clPending' # 0)
       /\ clState \in {"ended", "idle"} =>
             /\ clRing' => clRing
             /\ clRealtime' # 0 => clRealtime' = clRealtime]_vars

\* C13: every connection is in at most one of clients.caller and
\* clients.agent; an open connection is in clients[r] exactly when its role
\* is r; a connection that is closed is in neither set.
C13_ClientSetsMatchRoles ==
    \A c \in Conns :
        /\ ~(c \in clients.caller /\ c \in clients.agent)
        /\ wsState[c] = "open" =>
              /\ c \in clients.caller <=> wsRole[c] = "caller"
              /\ c \in clients.agent <=> wsRole[c] = "agent"
        /\ wsState[c] # "open" => (c \notin clients.caller /\ c \notin clients.agent)

\* C14: a step in which the backend sends the error reply 'Invalid message
\* format' to a connection leaves that connection open and leaves every
\* role and both client sets as they were.
C14_ErrorReplyChangesNothing ==
    [][\A c \in Conns :
          ErrorMsg(c) \in out' =>
             /\ wsState'[c] = "open"
             /\ wsRole' = wsRole
             /\ clients' = clients]_vars

\* C15: at a heartbeat tick, an open connection that was pinged by the
\* previous tick and sent no pong since is terminated, and every other open
\* connection (not yet pinged, or its pong arrived) stays open; the
\* heartbeat terminates a connection in no other case.
C15_HeartbeatTerminatesSilentOnly ==
    [][/\ hbParity' # hbParity =>
             \A c \in Conns :
                 wsState[c] = "open" =>
                    /\ hbAwaiting[c] => wsState'[c] = "terminated"
                    /\ ~hbAwaiting[c] => wsState'[c] = "open"
       /\ \A c \in Conns :
             (wsState'[c] = "terminated" /\ wsState[c] # "terminated")
             => (hbParity' # hbParity /\ wsState[c] = "open" /\ hbAwaiting[c])]_vars

\* one connection missed a pong and was terminated; the other answered its
\* ping and is still open after a later tick
C15_Witness ==
    \E c, d \in Conns :
        /\ wsState[c] = "terminated"
        /\ wsState[d] = "open"
        /\ hbAwaiting[d]
        /\ \E m \in out : m.type = "health_check" /\ m.to = d

\* C16: asr_result, translation_result and tts_ready are sent, and an
\* audio_chunk is in processing, only while the ASR service is connected;
\* without it no step starts a job or sends such a message.  The ASR service
\* becomes connected only in a step that handles start_recording (the step
\* that sends recording_started), and once connected it stays connected.
C16_ResultsOnlyWithAsr ==
    /\ [](\A m \in out :
             m.type \in {"asr_result", "translation_result", "tts_ready"}
             => servicesAsr)
    /\ [](jobs # {} => servicesAsr)
    /\ [][~servicesAsr =>
             /\ jobs' = jobs
             /\ \A m \in out' :
                   m.type \notin {"asr_result", "translation_result", "tts_ready"}]_vars
    /\ [][servicesAsr => servicesAsr']_vars
    /\ [][(~servicesAsr /\ servicesAsr') =>
             (\E m \in out' : m.type = "recording_started")]_vars

C16_Witness ==
    /\ servicesAsr
    /\ \E m \in out : m.type = "tts_ready"
    /\ \E c \in Conns : wsState[c] = "open" /\ wsRole[c] = "null"

====
